---- MODULE Spec2Model ----
(***************************************************************************)
(* The network interception cache layer of the optimized Playwright tests  *)
(* (src/tests/amazon-optimized.spec.js; the wikipedia and airbnb files     *)
(* repeat it with other isDynamic patterns): the module-level HTTP cache   *)
(* with its LRU eviction and its snapshot file, the pending-request        *)
(* registry, the blocklists and the page.route handler.                    *)
(*                                                                         *)
(* JavaScript runs the handlers on one thread.  A handler runs             *)
(* uninterrupted up to its next await; the continuations of every await on *)
(* a promise run in one microtask checkpoint when the promise settles,     *)
(* before any other handler is entered.  One action of this module is one  *)
(* such uninterrupted stretch.                                             *)
(***************************************************************************)
EXTENDS Integers, Sequences, FiniteSets, TLC

(***************************************************************************)
(* Bounds of the model.                                                    *)
(***************************************************************************)
\* intercepted requests over all runs
MaxReq == 2
\* largest value Date.now() returns
MaxClock == 3
\* processes started one after the other on the same snapshot file
MaxRuns == 2
\* largest PLAYWRIGHT_CACHE_MAX_ENTRIES the environment sets
MaxEntriesCeiling == 2
\* a small PLAYWRIGHT_CACHE_MAX_SIZE_MB, in bytes
TinyCacheBytes == 150
\* the default PLAYWRIGHT_CACHE_MAX_SIZE_MB ('50'), in bytes
DefaultCacheBytes == 52428800

(***************************************************************************)
(* Strings.                                                                *)
(***************************************************************************)
UpperLetters == "ABCDEFGHIJKLMNOPQRSTUVWXYZ"
LowerLetters == "abcdefghijklmnopqrstuvwxyz"

CharAt(s, i) == SubSeq(s, i, i)

LowerChar(c) ==
  IF \E i \in 1..26 : CharAt(UpperLetters, i) = c
  THEN CharAt(LowerLetters, CHOOSE i \in 1..26 : CharAt(UpperLetters, i) = c)
  ELSE c

RECURSIVE ToLower(_)
ToLower(s) ==
  IF Len(s) = 0 THEN "" ELSE LowerChar(CharAt(s, 1)) \o ToLower(SubSeq(s, 2, Len(s)))

\* String.prototype.includes
Includes(s, t) ==
  \E i \in 1..(Len(s) - Len(t) + 1) : SubSeq(s, i, i + Len(t) - 1) = t

\* String.prototype.startsWith
StartsWith(s, t) == Len(s) >= Len(t) /\ SubSeq(s, 1, Len(t)) = t

\* /a|b|c/i.test(s) for literal alternatives given in lower case
TestAnyCI(alternatives, s) == \E t \in alternatives : Includes(ToLower(s), t)

\* the character count of a number printed in decimal
Digits(n) == Len(ToString(n))

(***************************************************************************)
(* Request classification.                                                 *)
(***************************************************************************)
BLOCKED_RESOURCE_TYPES == {"image", "stylesheet", "font", "media"}

BLOCKED_DOMAINS ==
  { "google-analytics.com", "googletagmanager.com", "analytics.google.com",
    "doubleclick.net", "googleadservices.com", "facebook.com/tr", "facebook.net",
    "scorecardresearch.com", "quantserve.com", "adservice.google",
    "googlesyndication.com", "advertising.com", "adform.net",
    "adsafeprotected.com", "adnxs.com", "amazon-adsystem.com",
    "bing.com/analytics", "hotjar.com", "mixpanel.com", "segment.io",
    "newrelic.com", "optimizely.com", "fullstory.com", "mouseflow.com",
    "crazyegg.com", "clarity.microsoft.com" }

IsBlockedType(req) == req.resourceType \in BLOCKED_RESOURCE_TYPES

IsBlockedDomain(req) == \E domain \in BLOCKED_DOMAINS : Includes(req.url, domain)

\* line 148 always true
IsGetAlways(req) == TRUE

IsGet(req) == req.method = "GET"

\* line 149 never true
IsDataOrBlobNever(req) == FALSE

IsDataOrBlob(req) == StartsWith(req.url, "data:") \/ StartsWith(req.url, "blob:")

IsAuthLike(req) ==
  \/ TestAnyCI({"/login", "/signin", "/logout", "/auth"}, req.url)
  \/ TestAnyCI({"token=", "session=", "auth="}, req.url)

IsDynamic(req) ==
  TestAnyCI({"/api/", "suggestions", "search", "recommendations"}, req.url)

(***************************************************************************)
(* Base64, as Buffer.prototype.toString('base64') and                      *)
(* Buffer.from(text, 'base64') compute it.  Bytes are 0..255.              *)
(***************************************************************************)
B64Alphabet == "ABCDEFGHIJKLMNOPQRSTUVWXYZabcdefghijklmnopqrstuvwxyz0123456789+/"

B64Char(n) == CharAt(B64Alphabet, n + 1)

B64Index(c) == CHOOSE n \in 0..63 : B64Char(n) = c

RECURSIVE Base64Encode(_)
Base64Encode(b) ==
  IF Len(b) = 0 THEN ""
  ELSE IF Len(b) = 1 THEN
    B64Char(b[1] \div 4) \o B64Char((b[1] % 4) * 16) \o "=="
  ELSE IF Len(b) = 2 THEN
    B64Char(b[1] \div 4) \o B64Char((b[1] % 4) * 16 + b[2] \div 16)
      \o B64Char((b[2] % 16) * 4) \o "="
  ELSE
    B64Char(b[1] \div 4) \o B64Char((b[1] % 4) * 16 + b[2] \div 16)
      \o B64Char((b[2] % 16) * 4 + b[3] \div 64) \o B64Char(b[3] % 64)
      \o Base64Encode(SubSeq(b, 4, Len(b)))

\* the text up to its first padding character
RECURSIVE B64Payload(_)
B64Payload(s) ==
  IF Len(s) = 0 \/ CharAt(s, 1) = "=" THEN ""
  ELSE CharAt(s, 1) \o B64Payload(SubSeq(s, 2, Len(s)))

RECURSIVE B64DecodePayload(_)
B64DecodePayload(s) ==
  IF Len(s) < 2 THEN << >>
  ELSE LET a == B64Index(CharAt(s, 1))
           b == B64Index(CharAt(s, 2))
       IN IF Len(s) = 2 THEN << a * 4 + b \div 16 >>
          ELSE LET c == B64Index(CharAt(s, 3))
               IN IF Len(s) = 3
                  THEN << a * 4 + b \div 16, (b % 16) * 16 + c \div 4 >>
                  ELSE << a * 4 + b \div 16, (b % 16) * 16 + c \div 4,
                          (c % 4) * 64 + B64Index(CharAt(s, 4)) >>
                       \o B64DecodePayload(SubSeq(s, 5, Len(s)))

\* a decoder that drops a final group shorter than four characters
Base64DecodeWholeGroups(s) ==
  B64DecodePayload(SubSeq(B64Payload(s), 1, 4 * (Len(B64Payload(s)) \div 4)))

Base64Decode(s) == B64DecodePayload(B64Payload(s))

(***************************************************************************)
(* Inputs: the URLs, the requests the browser issues, and what the         *)
(* upstream answers.                                                       *)
(***************************************************************************)
UrlP == "https://a.co/p"
UrlQ == "https://a.co/q"
UrlLogin == "https://a.co/Login"
UrlSearch == "https://a.co/s?k=Search"
UrlTracker == "https://hotjar.com/t?token=1"
UrlData == "data:,x"

Request(method, resourceType, url) ==
  [method |-> method, resourceType |-> resourceType, url |-> url]

Requests ==
  { Request("GET", "document", UrlP),
    Request("GET", "document", UrlQ),
    Request("GET", "document", UrlLogin),
    Request("GET", "xhr", UrlSearch),
    Request("GET", "script", UrlTracker),
    Request("GET", "image", UrlP),
    Request("POST", "xhr", UrlP),
    Request("POST", "xhr", UrlTracker),
    Request("GET", "document", UrlData) }

HeadersNone == << >>
HeadersHtml == << <<"content-type", "text/html">> >>

Response(status, headers, body) ==
  [status |-> status, headers |-> headers, body |-> body]

\* what route.fetch() and response.body() yield when they succeed
Responses ==
  { Response(200, HeadersHtml, <<77, 97, 110>>),
    Response(399, HeadersNone, <<255>>),
    Response(400, HeadersNone, << >>) }

\* no value: null, undefined
None == [status |-> 0, headers |-> << >>, body |-> << >>]

\* the response bodies the upstream sends and the snapshot files hold
Bodies == { r.body : r \in Responses }

\* The tests of the handler on each request, and the two conversions of each
\* body, evaluated once: a request's tests depend on the request alone.
RequestTests ==
  [ req \in Requests |->
      [ isBlockedType |-> IsBlockedType(req),
        isBlockedDomain |-> IsBlockedDomain(req),
        isGet |-> IsGet(req),
        isDataOrBlob |-> IsDataOrBlob(req),
        isAuthLike |-> IsAuthLike(req),
        isDynamic |-> IsDynamic(req) ] ]

\* bodyBuffer.toString('base64')
ToBase64 == [ b \in Bodies |-> Base64Encode(b) ]

\* Buffer.from(cached.body, 'base64')
FromBase64 == [ s \in { Base64Encode(b) : b \in Bodies } |-> Base64Decode(s) ]

(***************************************************************************)
(* The cache store: httpCache is an object, modelled as the sequence of    *)
(* its properties in insertion order (the order of Object.entries).        *)
(***************************************************************************)
Entry(key, status, headers, body, lastAccess) ==
  [key |-> key, status |-> status, headers |-> headers, body |-> body,
   lastAccess |-> lastAccess]

Keys(cache) == { cache[i].key : i \in 1..Len(cache) }

Has(cache, key) == key \in Keys(cache)

IndexOf(cache, key) == CHOOSE i \in 1..Len(cache) : cache[i].key = key

Get(cache, key) == cache[IndexOf(cache, key)]

\* delete cache[key]
Delete(cache, key) ==
  IF Has(cache, key)
  THEN SubSeq(cache, 1, IndexOf(cache, key) - 1)
         \o SubSeq(cache, IndexOf(cache, key) + 1, Len(cache))
  ELSE cache

\* the assignment left out
SetNot(cache, entry) == cache

\* cache[entry.key] = entry: an existing property keeps its place
Set(cache, entry) ==
  IF Has(cache, entry.key)
  THEN [cache EXCEPT ![IndexOf(cache, entry.key)] = entry]
  ELSE Append(cache, entry)

RECURSIVE HeadersInnerBytes(_)
HeadersInnerBytes(h) ==
  IF Len(h) = 0 THEN 0
  ELSE Len(h[1][1]) + 2 + 1 + Len(h[1][2]) + 2
         + (IF Len(h) > 1 THEN 1 ELSE 0) + HeadersInnerBytes(Tail(h))

\* the length of JSON.stringify(entry)
EntryBytes(e) ==
  Len("{\"status\":") + Digits(e.status)
    + Len(",\"headers\":") + 2 + HeadersInnerBytes(e.headers)
    + Len(",\"body\":\"") + Len(e.body)
    + Len("\",\"lastAccess\":") + Digits(e.lastAccess) + Len("}")

RECURSIVE CacheInnerBytes(_)
CacheInnerBytes(cache) ==
  IF Len(cache) = 0 THEN 0
  ELSE Len(cache[1].key) + 2 + 1 + EntryBytes(cache[1])
         + (IF Len(cache) > 1 THEN 1 ELSE 0) + CacheInnerBytes(Tail(cache))

\* getCacheSizeMB() * 1024 * 1024: the byte length of JSON.stringify(httpCache)
CacheSizeBytes(cache) == 2 + CacheInnerBytes(cache)

\* no sort: the entries in insertion order
SortNot(entries) == entries

\* entries.sort((a, b) => (a[1].lastAccess || 0) - (b[1].lastAccess || 0)):
\* Array.prototype.sort is stable
RECURSIVE SortByLastAccess(_)
SortByLastAccess(entries) ==
  IF Len(entries) = 0 THEN << >>
  ELSE LET sorted == SortByLastAccess(SubSeq(entries, 1, Len(entries) - 1))
           last == entries[Len(entries)]
           n == Cardinality({ i \in 1..Len(sorted) : sorted[i].lastAccess <= last.lastAccess })
       IN SubSeq(sorted, 1, n) \o << last >> \o SubSeq(sorted, n + 1, Len(sorted))

\* the two tests with > for >=
NeedsEvictionAbove(cache, maxEntries, maxBytes) ==
  Len(cache) > maxEntries \/ CacheSizeBytes(cache) > maxBytes

NeedsEviction(cache, maxEntries, maxBytes) ==
  Len(cache) >= maxEntries \/ CacheSizeBytes(cache) >= maxBytes

\* a loop without the break of lines 80-82: it removes every entry
EvictLoopToTheEnd(cache, order, maxEntries, maxBytes) == << >>

\* the for loop of evictLRU over the sorted entries
RECURSIVE EvictLoop(_, _, _, _)
EvictLoop(cache, order, maxEntries, maxBytes) ==
  IF Len(order) = 0 THEN cache
  ELSE IF NeedsEviction(cache, maxEntries, maxBytes)
       THEN EvictLoop(Delete(cache, order[1].key), Tail(order), maxEntries, maxBytes)
       ELSE cache

\* evictLRU() without lines 66-70: it always removes the oldest entry
EvictLRUAtLeastOne(cache, maxEntries, maxBytes) ==
  IF cache = << >> THEN cache ELSE Delete(cache, SortByLastAccess(cache)[1].key)

\* evictLRU(): the store it leaves
EvictLRU(cache, maxEntries, maxBytes) ==
  IF ~NeedsEviction(cache, maxEntries, maxBytes) THEN cache
  ELSE EvictLoop(cache, SortByLastAccess(cache), maxEntries, maxBytes)

(***************************************************************************)
(* The snapshot file .cache/http-cache.json.  JSON.stringify writes the    *)
(* store's properties in order, each with its status, headers, body text   *)
(* and lastAccess; JSON.parse gives them back.  A file is absent, holds    *)
(* text that JSON.parse rejects, or holds such a mapping; lastAccess 0     *)
(* stands for an entry written without one.                                *)
(***************************************************************************)
FileAbsent == [state |-> "absent", entries |-> << >>]
FileCorrupt == [state |-> "corrupt", entries |-> << >>]

\* a text that holds the first property of the store only
StringifyFirst(cache) ==
  [state |-> "json", entries |-> IF cache = << >> THEN cache ELSE << cache[1] >>]

\* a file that readFileSync cannot read
FileUnreadable == [state |-> "unreadable", entries |-> << >>]

\* JSON.stringify(httpCache, null, 2)
Stringify(cache) == [state |-> "json", entries |-> cache]

\* the files a first run may find: none, or one left by another test of the
\* repository (the three tests share CACHE_FILE and differ in isDynamic)
InitialFiles ==
  { FileAbsent,
    Stringify(<< Entry(UrlSearch, 200, HeadersNone, ToBase64[<<255>>], 0),
                 Entry(UrlP, 200, HeadersHtml, ToBase64[<<77, 97, 110>>], 1) >>) }

\* a file of valid JSON whose first property is an entry and whose second is
\* null: the loop of lines 98-103 stores the first and throws on the second
FilePartial ==
  [state |-> "throws",
   entries |-> << Entry(UrlQ, 200, HeadersNone, ToBase64[<< >>], 1) >>]

\* the files a process may find at its start
StartFiles == InitialFiles \cup {FileCorrupt, FileUnreadable, FilePartial}

\* the for loop of the module-level load: lastAccess: value.lastAccess || Date.now()
LoadEntries(entries, t) ==
  [ i \in 1..Len(entries) |->
      [entries[i] EXCEPT !.lastAccess =
         IF entries[i].lastAccess = 0 THEN t ELSE entries[i].lastAccess] ]

\* the file after the CACHE_CLEAR step of the module-level load
ClearedFile(file, cacheEnabled, cacheClear) ==
  IF cacheEnabled /\ cacheClear /\ file.state # "absent" THEN FileAbsent ELSE file

\* the load with a catch that keeps what the loop had stored
LoadedCacheKeepingPart(file, cacheEnabled, t) ==
  IF cacheEnabled /\ file.state \in {"json", "throws"}
  THEN LoadEntries(file.entries, t) ELSE << >>

\* the store after the module-level load, before its evictLRU(): the catch of
\* lines 109-112 empties it when the read, the parse or the loop throws
LoadedCache(file, cacheEnabled, t) ==
  IF cacheEnabled /\ file.state = "json" THEN LoadEntries(file.entries, t) ELSE << >>

(***************************************************************************)
(* State.                                                                  *)
(***************************************************************************)
VARIABLES
  env,              \* process.env as read by the module-level constants
  now,              \* the last value Date.now() returned
  run,              \* the number of the running process
  runPc,            \* where the test body is: "test", "writing", "ended"
  writeText,        \* the text an unfinished fs.promises.writeFile is writing
  writeOutcome,     \* history: how the last writeCacheToDisk() call went
  cacheFile,        \* CACHE_FILE on disk
  httpCache,
  cacheDirty,
  cacheStats,
  dedupStats,
  domainBlockStats,
  pendingRequests,  \* key -> the handler whose requestPromise is registered
  handlers,         \* the route handler invocations, in order of arrival
  origin,           \* history: key -> the upstream response its entry was put from
  evictCall         \* history: the store before and after the last evictLRU()

vars ==
  << env, now, run, runPc, writeText, writeOutcome, cacheFile, httpCache, cacheDirty,
     cacheStats, dedupStats, domainBlockStats, pendingRequests, handlers,
     origin, evictCall >>

CACHE_ENABLED == env.CACHE_ENABLED
CACHE_CLEAR == env.CACHE_CLEAR
MAX_CACHE_ENTRIES == env.MAX_CACHE_ENTRIES
\* MAX_CACHE_SIZE_MB * 1024 * 1024
MAX_CACHE_SIZE_BYTES == env.MAX_CACHE_SIZE_BYTES
DEDUP_ENABLED == env.DEDUP_ENABLED
DOMAIN_BLOCKING_ENABLED == env.DOMAIN_BLOCKING_ENABLED

Handlers == 1..MaxReq

NoRequest == Request("", "", "")

\* a handler not yet invoked
Idle ==
  [pc |-> "idle", req |-> NoRequest, via |-> "none", awaits |-> 0,
   response |-> None, delivered |-> None]

\* a handler of a process that has ended
Gone == [Idle EXCEPT !.pc = "gone"]

\* Date.now(): it never goes back
ClockReads == { t \in now..(now + 1) : t <= MaxClock }

ZeroCacheStats == [hits |-> 0, misses |-> 0, writes |-> 0, evictions |-> 0]
ZeroDedupStats == [duplicates |-> 0, unique |-> 0]
ZeroBlockStats == [blocked |-> 0]

\* the call of evictLRU() left out, at line 107 and at line 195
EvictNot(cache) == cache

\* evictLRU() as the running process calls it
Evict(cache) == EvictLRU(cache, MAX_CACHE_ENTRIES, MAX_CACHE_SIZE_BYTES)

EvictCall(cache) == [before |-> cache, after |-> Evict(cache)]

NoEvictCall == [before |-> << >>, after |-> << >>]

\* line 85 as evictions++: one per call that evicts
EvictionsAfterByCall(stats, cache) ==
  [stats EXCEPT !.evictions = @ + (IF Len(cache) > Len(Evict(cache)) THEN 1 ELSE 0)]

\* lines 84-87 of evictLRU: the evictions counter and the dirty flag
EvictionsAfter(stats, cache) ==
  [stats EXCEPT !.evictions = @ + (Len(cache) - Len(Evict(cache)))]

DirtyAfterEvict(dirty, cache) == dirty \/ Len(cache) > Len(Evict(cache))

\* the module-level load, lines 89-113: the file it leaves and the store it
\* builds before calling evictLRU()
ModuleLoad(file, t) ==
  LET cleared == ClearedFile(file, CACHE_ENABLED, CACHE_CLEAR)
  IN [cacheFile |-> cleared, loaded |-> LoadedCache(cleared, CACHE_ENABLED, t)]

\* the module-level statements of a starting process, lines 11-113: what
\* they leave in the variables they set
Started(file, t) ==
  LET load == ModuleLoad(file, t)
  IN [ cacheFile |-> load.cacheFile,
       httpCache |-> Evict(load.loaded),
       cacheStats |-> EvictionsAfter(ZeroCacheStats, load.loaded),
       cacheDirty |-> DirtyAfterEvict(FALSE, load.loaded),
       evictCall |-> IF CACHE_ENABLED /\ load.cacheFile.state = "json"
                     THEN EvictCall(load.loaded) ELSE NoEvictCall ]

Environments ==
  [ CACHE_ENABLED : BOOLEAN, CACHE_CLEAR : BOOLEAN,
    MAX_CACHE_ENTRIES : 1..MaxEntriesCeiling,
    MAX_CACHE_SIZE_BYTES : {TinyCacheBytes, DefaultCacheBytes},
    DEDUP_ENABLED : BOOLEAN, DOMAIN_BLOCKING_ENABLED : BOOLEAN ]

\* the environment that sets no flag: cache, deduplication and domain
\* blocking on, clear-on-start off
DefaultFlags(e) ==
  e.CACHE_ENABLED /\ ~e.CACHE_CLEAR /\ e.DEDUP_ENABLED /\ e.DOMAIN_BLOCKING_ENABLED

\* the first process starts at time 2 (the initial file was written at time 1)
InitWith(environments, files) ==
  /\ env \in environments
  /\ now = 2
  /\ run = 1
  /\ \E file \in files :
       /\ cacheFile = Started(file, 2).cacheFile
       /\ httpCache = Started(file, 2).httpCache
       /\ cacheStats = Started(file, 2).cacheStats
       /\ cacheDirty = Started(file, 2).cacheDirty
       /\ evictCall = Started(file, 2).evictCall
  /\ dedupStats = ZeroDedupStats
  /\ domainBlockStats = ZeroBlockStats
  /\ pendingRequests = << >>
  /\ runPc = "test"
  /\ writeText = FileAbsent
  /\ writeOutcome = "none"
  /\ origin = << >>
  /\ handlers = [i \in Handlers |-> Idle]

InitEnv(environments) == InitWith(environments, InitialFiles)

Init == InitEnv({ e \in Environments : DefaultFlags(e) })

\* the default ceilings, the cache on or off, clear-on-start set or not, and
\* any file at the start
LoadFlags(e) ==
  /\ e.DEDUP_ENABLED /\ e.DOMAIN_BLOCKING_ENABLED
  /\ e.MAX_CACHE_ENTRIES = MaxEntriesCeiling
  /\ e.MAX_CACHE_SIZE_BYTES = DefaultCacheBytes

InitLoad == InitWith({ e \in Environments : LoadFlags(e) }, StartFiles)

InitAnyEnv == InitEnv(Environments)

\* the default ceilings and no clear-on-start; the cache and deduplication
\* on or off; domain blocking on, or off with the cache off
SwitchFlags(e) ==
  /\ ~e.CACHE_CLEAR
  /\ e.MAX_CACHE_ENTRIES = MaxEntriesCeiling
  /\ e.MAX_CACHE_SIZE_BYTES = DefaultCacheBytes
  /\ e.CACHE_ENABLED => e.DOMAIN_BLOCKING_ENABLED

InitSwitches == InitEnv({ e \in Environments : SwitchFlags(e) })

(***************************************************************************)
(* The route handler, lines 132-221.                                       *)
(***************************************************************************)
\* handler i is the next invocation
Enters(i) ==
  /\ handlers[i].pc = "idle"
  /\ IF i = 1 THEN TRUE ELSE handlers[i - 1].pc # "idle"

\* the condition of line 155 without its isDynamic test
IsCacheableThoughDynamic(req) ==
  /\ CACHE_ENABLED
  /\ RequestTests[req].isGet
  /\ ~RequestTests[req].isDataOrBlob
  /\ ~RequestTests[req].isAuthLike

\* the condition of line 155 without its CACHE_ENABLED test
IsCacheableCacheOff(req) ==
  /\ RequestTests[req].isGet
  /\ ~RequestTests[req].isDataOrBlob
  /\ ~RequestTests[req].isAuthLike
  /\ ~RequestTests[req].isDynamic

\* the condition of line 155
IsCacheable(req) ==
  /\ CACHE_ENABLED
  /\ RequestTests[req].isGet
  /\ ~RequestTests[req].isDataOrBlob
  /\ ~RequestTests[req].isAuthLike
  /\ ~RequestTests[req].isDynamic

\* the block steps without their return: the handler runs on
NotBlockedOrNot(req) == TRUE

\* the handler gets past the two block steps, lines 136-147
NotBlocked(req) ==
  /\ ~RequestTests[req].isBlockedType
  /\ ~(DOMAIN_BLOCKING_ENABLED /\ RequestTests[req].isBlockedDomain)

\* line 168 without its registry test
HasPendingNever(key) == FALSE

\* line 168
HasPending(key) == DEDUP_ENABLED /\ key \in DOMAIN pendingRequests

\* pendingRequests.set(key, promise)
PendingSet(pending, key, owner) ==
  [k \in DOMAIN pending \cup {key} |-> IF k = key THEN owner ELSE pending[k]]

\* pendingRequests.delete(key) left out
PendingDeleteNot(pending, key) == pending

\* pendingRequests.delete(key)
PendingDelete(pending, key) == [k \in DOMAIN pending \ {key} |-> pending[k]]

\* the promise of handler owner is rejected, not pending
IsRejected(owner) == handlers[owner].pc = "error"

\* the handler of req ends in its first stretch
Ends(req, pc, via, delivered) ==
  [Idle EXCEPT !.req = req, !.pc = pc, !.via = via, !.delivered = delivered]

\* line 143 left out
CountBlockedNot(stats) == stats

\* line 143
CountBlocked(stats) == [stats EXCEPT !.blocked = @ + 1]

\* line 159
CountHit(stats) == [stats EXCEPT !.hits = @ + 1]

\* line 169
CountDuplicate(stats) == [stats EXCEPT !.duplicates = @ + 1]

\* line 178 left out
CountMissNot(stats) == stats

\* line 178
CountMiss(stats) == [stats EXCEPT !.misses = @ + 1]

\* line 179
\* line 179 left out
CountUniqueNot(stats) == stats

\* line 179
CountUnique(stats) == [stats EXCEPT !.unique = @ + 1]

\* lines 136-139: route.abort() for a blocked resource type
BlockType(i, req) ==
  /\ Enters(i)
  /\ RequestTests[req].isBlockedType
  /\ handlers' = [handlers EXCEPT ![i] = Ends(req, "aborted", "type", None)]
  /\ UNCHANGED << env, now, run, runPc, writeText, writeOutcome, cacheFile, httpCache, cacheDirty,
                  cacheStats, dedupStats, domainBlockStats, pendingRequests,
                  origin, evictCall >>

\* lines 140-147: route.abort() for a blocked domain
BlockDomain(i, req) ==
  /\ Enters(i)
  /\ ~RequestTests[req].isBlockedType
  /\ DOMAIN_BLOCKING_ENABLED
  /\ RequestTests[req].isBlockedDomain
  /\ domainBlockStats' = CountBlocked(domainBlockStats)
  /\ handlers' = [handlers EXCEPT ![i] = Ends(req, "aborted", "domain", None)]
  /\ UNCHANGED << env, now, run, runPc, writeText, writeOutcome, cacheFile, httpCache, cacheDirty,
                  cacheStats, dedupStats, pendingRequests, origin, evictCall >>

\* line 220: route.continue() for a request that is not cacheable
PassThrough(i, req) ==
  /\ Enters(i)
  /\ NotBlocked(req)
  /\ ~IsCacheable(req)
  /\ handlers' = [handlers EXCEPT ![i] = Ends(req, "continued", "pass", None)]
  /\ UNCHANGED << env, now, run, runPc, writeText, writeOutcome, cacheFile, httpCache, cacheDirty,
                  cacheStats, dedupStats, domainBlockStats, pendingRequests,
                  origin, evictCall >>

\* lines 161-165: what route.fulfill gets for a cached entry
FromCache(cached) == Response(cached.status, cached.headers, FromBase64[cached.body])

\* every entry gets the time of the hit
TouchEvery(cache, key, t) == [j \in 1..Len(cache) |-> [cache[j] EXCEPT !.lastAccess = t]]

\* line 160: cached.lastAccess = Date.now()
Touch(cache, key, t) == [cache EXCEPT ![IndexOf(cache, key)].lastAccess = t]

\* lines 156-167: the cache hit
CacheHit(i, req) ==
  /\ Enters(i)
  /\ NotBlocked(req)
  /\ IsCacheable(req)
  /\ Has(httpCache, req.url)
  /\ \E t \in ClockReads :
       /\ now' = t
       /\ httpCache' = Touch(httpCache, req.url, t)
  /\ cacheStats' = CountHit(cacheStats)
  /\ handlers' = [handlers EXCEPT ![i] =
       Ends(req, "fulfilled", "hit", FromCache(Get(httpCache, req.url)))]
  /\ UNCHANGED << env, run, runPc, writeText, writeOutcome, cacheFile, cacheDirty,
                  dedupStats, domainBlockStats, pendingRequests, origin, evictCall >>

\* lines 168-177: the request joins the pending fetch of its key.  Awaiting a
\* promise that is already rejected throws in the same stretch.
JoinPending(i, req) ==
  /\ Enters(i)
  /\ NotBlocked(req)
  /\ IsCacheable(req)
  /\ ~Has(httpCache, req.url)
  /\ HasPending(req.url)
  /\ dedupStats' = CountDuplicate(dedupStats)
  /\ handlers' = [handlers EXCEPT ![i] =
       [Idle EXCEPT !.req = req, !.via = "join", !.awaits = pendingRequests[req.url],
                    !.pc = IF IsRejected(pendingRequests[req.url]) THEN "error" ELSE "waiting"]]
  /\ UNCHANGED << env, now, run, runPc, writeText, writeOutcome, cacheFile, httpCache, cacheDirty,
                  cacheStats, domainBlockStats, pendingRequests, origin, evictCall >>

\* lines 178-208: the request becomes the owner: route.fetch() is called and
\* its promise registered before the handler is suspended
StartFetch(i, req) ==
  /\ Enters(i)
  /\ NotBlocked(req)
  /\ IsCacheable(req)
  /\ ~Has(httpCache, req.url)
  /\ ~HasPending(req.url)
  /\ cacheStats' = CountMiss(cacheStats)
  /\ dedupStats' = CountUnique(dedupStats)
  /\ pendingRequests' = PendingSet(pendingRequests, req.url, i)
  /\ handlers' = [handlers EXCEPT ![i] =
       [Idle EXCEPT !.req = req, !.via = "fetch", !.awaits = i, !.pc = "fetching"]]
  /\ UNCHANGED << env, now, run, runPc, writeText, writeOutcome, cacheFile, httpCache, cacheDirty,
                  domainBlockStats, origin, evictCall >>

\* line 194 with <= 400 for < 400
IsCacheableStatusTo400(status) == status >= 200 /\ status <= 400

\* line 194
IsCacheableStatus(status) == status >= 200 /\ status < 400

\* lines 196-201: the entry a fetched response is stored as
EntryOf(key, response, t) ==
  Entry(key, response.status, response.headers, ToBase64[response.body], t)

\* a put that makes room by dropping the entry inserted last
PutDroppingLastInserted(cache, key, response, t) ==
  Set(IF NeedsEviction(cache, MAX_CACHE_ENTRIES, MAX_CACHE_SIZE_BYTES)
      THEN Delete(cache, cache[Len(cache)].key) ELSE cache,
      EntryOf(key, response, t))

\* lines 195-201: evictLRU() and the insertion of the fetched response
Put(cache, key, response, t) == Set(Evict(cache), EntryOf(key, response, t))

\* the history of the puts, kept for the keys in the store
OriginAfter(cache, key, response) ==
  [k \in (DOMAIN origin \cap Keys(cache)) \cup {key} |->
     IF k = key THEN response ELSE origin[k]]

\* lines 208-218: the owner after await requestPromise.  outcome is "rejected"
\* (the promise threw), "null" or "result".
OwnerAfter(h, outcome, result) ==
  IF outcome = "rejected" THEN [h EXCEPT !.pc = "error"]
  ELSE IF outcome = "null" THEN [h EXCEPT !.pc = "continued"]
  ELSE [h EXCEPT !.pc = "fulfilled", !.delivered = result]

\* a waiter fulfilled with the status and headers but an empty body
WaiterAfterWithoutBody(h, outcome, result) ==
  IF outcome = "rejected" THEN [h EXCEPT !.pc = "error"]
  ELSE IF outcome = "null" THEN [h EXCEPT !.pc = "error"]
  ELSE [h EXCEPT !.pc = "fulfilled", !.delivered = [result EXCEPT !.body = << >>]]

\* lines 170-176: a waiter after await pendingRequests.get(key): reading
\* pendingResponse.status of null throws a TypeError
WaiterAfter(h, outcome, result) ==
  IF outcome = "rejected" THEN [h EXCEPT !.pc = "error"]
  ELSE IF outcome = "null" THEN [h EXCEPT !.pc = "error"]
  ELSE [h EXCEPT !.pc = "fulfilled", !.delivered = result]

IsWaiterOf(j, i) == j # i /\ handlers[j].pc = "waiting" /\ handlers[j].awaits = i

\* requestPromise settles: the owner and every waiter run on
Settle(i, outcome, result) ==
  handlers' =
    [j \in Handlers |->
       IF j = i THEN OwnerAfter(handlers[i], outcome, result)
       ELSE IF IsWaiterOf(j, i) THEN WaiterAfter(handlers[j], outcome, result)
       ELSE handlers[j]]

\* line 181: route.fetch() throws; nothing removes the registry entry
FetchThrows(i) ==
  /\ handlers[i].pc = "fetching"
  /\ Settle(i, "rejected", None)
  /\ UNCHANGED << env, now, run, runPc, writeText, writeOutcome, cacheFile, httpCache, cacheDirty,
                  cacheStats, dedupStats, domainBlockStats, pendingRequests,
                  origin, evictCall >>

\* lines 182-185: route.fetch() yields no response
FetchYieldsNothing(i) ==
  /\ handlers[i].pc = "fetching"
  /\ pendingRequests' = PendingDelete(pendingRequests, handlers[i].req.url)
  /\ Settle(i, "null", None)
  /\ UNCHANGED << env, now, run, runPc, writeText, writeOutcome, cacheFile, httpCache, cacheDirty,
                  cacheStats, dedupStats, domainBlockStats, origin, evictCall >>

\* line 181: route.fetch() yields a response; line 186 awaits its body
FetchResponds(i, response) ==
  /\ handlers[i].pc = "fetching"
  /\ handlers' = [handlers EXCEPT ![i].pc = "body", ![i].response = response]
  /\ UNCHANGED << env, now, run, runPc, writeText, writeOutcome, cacheFile, httpCache, cacheDirty,
                  cacheStats, dedupStats, domainBlockStats, pendingRequests,
                  origin, evictCall >>

\* line 186: response.body() throws; nothing removes the registry entry
BodyThrows(i) ==
  /\ handlers[i].pc = "body"
  /\ Settle(i, "rejected", None)
  /\ UNCHANGED << env, now, run, runPc, writeText, writeOutcome, cacheFile, httpCache, cacheDirty,
                  cacheStats, dedupStats, domainBlockStats, pendingRequests,
                  origin, evictCall >>

\* the body arrives and the step stops after evictLRU(): the insertion is
\* left for later
BodyArrivesEvictingOnly(i) ==
  /\ handlers[i].pc = "body"
  /\ IF IsCacheableStatus(handlers[i].response.status)
     THEN /\ \E t \in ClockReads : now' = t
          /\ httpCache' = Evict(httpCache)
          /\ cacheStats' = EvictionsAfter(cacheStats, httpCache)
          /\ cacheDirty' = TRUE
          /\ evictCall' = EvictCall(httpCache)
          /\ origin' = OriginAfter(Evict(httpCache), handlers[i].req.url, handlers[i].response)
     ELSE UNCHANGED << now, httpCache, cacheStats, cacheDirty, evictCall, origin >>
  /\ pendingRequests' = PendingDelete(pendingRequests, handlers[i].req.url)
  /\ Settle(i, "result", handlers[i].response)
  /\ UNCHANGED << env, run, runPc, writeText, writeOutcome, cacheFile, dedupStats, domainBlockStats >>

\* lines 186-218: the body arrives: the put, the removal from the registry,
\* and the fulfilment of the owner and the waiters
BodyArrives(i) ==
  /\ handlers[i].pc = "body"
  /\ IF IsCacheableStatus(handlers[i].response.status)
     THEN /\ \E t \in ClockReads :
               /\ now' = t
               /\ httpCache' = Put(httpCache, handlers[i].req.url, handlers[i].response, t)
          /\ cacheStats' = EvictionsAfter(cacheStats, httpCache)
          /\ cacheDirty' = TRUE
          /\ evictCall' = EvictCall(httpCache)
          /\ origin' = OriginAfter(Evict(httpCache), handlers[i].req.url, handlers[i].response)
     ELSE UNCHANGED << now, httpCache, cacheStats, cacheDirty, evictCall, origin >>
  /\ pendingRequests' = PendingDelete(pendingRequests, handlers[i].req.url)
  /\ Settle(i, "result", handlers[i].response)
  /\ UNCHANGED << env, run, runPc, writeText, writeOutcome, cacheFile, dedupStats, domainBlockStats >>

(***************************************************************************)
(* The end of the test body, lines 346-347: await writeCacheToDisk();      *)
(* pendingRequests.clear().  Handlers still run until the process ends.    *)
(***************************************************************************)
\* line 124
CountWrite(stats) == [stats EXCEPT !.writes = @ + 1]

\* line 115: nothing to write
WriteSkipped ==
  /\ runPc = "test"
  /\ ~cacheDirty \/ ~CACHE_ENABLED
  /\ pendingRequests' = << >>
  /\ runPc' = "ended"
  /\ writeOutcome' = "skipped"
  /\ UNCHANGED << env, now, run, writeText, cacheFile, httpCache, cacheDirty,
                  cacheStats, dedupStats, domainBlockStats, handlers, origin, evictCall >>

\* lines 116-122: the text is built and fs.promises.writeFile awaited
WriteBegins ==
  /\ runPc = "test"
  /\ cacheDirty /\ CACHE_ENABLED
  /\ writeText' = Stringify(httpCache)
  /\ runPc' = "writing"
  /\ writeOutcome' = "writing"
  /\ UNCHANGED << env, now, run, cacheFile, httpCache, cacheDirty, cacheStats,
                  dedupStats, domainBlockStats, pendingRequests, handlers,
                  origin, evictCall >>

\* lines 123-124: the write succeeded
WriteSucceeds ==
  /\ runPc = "writing"
  /\ cacheFile' = writeText
  /\ cacheDirty' = FALSE
  /\ cacheStats' = CountWrite(cacheStats)
  /\ pendingRequests' = << >>
  /\ runPc' = "ended"
  /\ writeText' = FileAbsent
  /\ writeOutcome' = "written"
  /\ UNCHANGED << env, now, run, httpCache, dedupStats, domainBlockStats, handlers,
                  origin, evictCall >>

\* the failed write with lines 123-124 run all the same
WriteFailsCounted ==
  /\ runPc = "writing"
  /\ cacheFile' \in {cacheFile, FileCorrupt}
  /\ cacheDirty' = FALSE
  /\ cacheStats' = CountWrite(cacheStats)
  /\ pendingRequests' = << >>
  /\ runPc' = "ended"
  /\ writeText' = FileAbsent
  /\ writeOutcome' = "failed"
  /\ UNCHANGED << env, now, run, httpCache, dedupStats,
                  domainBlockStats, handlers, origin, evictCall >>

\* lines 125-127: the write failed, leaving the file as it was or cut short
WriteFails ==
  /\ runPc = "writing"
  /\ cacheFile' \in {cacheFile, FileCorrupt}
  /\ pendingRequests' = << >>
  /\ runPc' = "ended"
  /\ writeText' = FileAbsent
  /\ writeOutcome' = "failed"
  /\ UNCHANGED << env, now, run, httpCache, cacheDirty, cacheStats, dedupStats,
                  domainBlockStats, handlers, origin, evictCall >>

\* the process ends (after the test body, or with a test that failed before
\* its end) and the next one starts on the same file and environment
Restart ==
  /\ run < MaxRuns
  /\ runPc \in {"test", "ended"}
  /\ run' = run + 1
  /\ \E t \in ClockReads :
       /\ now' = t
       /\ cacheFile' = Started(cacheFile, t).cacheFile
       /\ httpCache' = Started(cacheFile, t).httpCache
       /\ cacheStats' = Started(cacheFile, t).cacheStats
       /\ cacheDirty' = Started(cacheFile, t).cacheDirty
       /\ evictCall' = Started(cacheFile, t).evictCall
  /\ dedupStats' = ZeroDedupStats
  /\ domainBlockStats' = ZeroBlockStats
  /\ pendingRequests' = << >>
  /\ runPc' = "test"
  /\ writeText' = FileAbsent
  /\ writeOutcome' = "none"
  /\ origin' = << >>
  /\ handlers' = [i \in Handlers |-> IF handlers[i].pc = "idle" THEN Idle ELSE Gone]
  /\ UNCHANGED env

Next ==
  \/ \E i \in Handlers, req \in Requests :
       \/ BlockType(i, req)
       \/ BlockDomain(i, req)
       \/ PassThrough(i, req)
       \/ CacheHit(i, req)
       \/ JoinPending(i, req)
       \/ StartFetch(i, req)
  \/ \E i \in Handlers :
       \/ FetchThrows(i)
       \/ FetchYieldsNothing(i)
       \/ BodyThrows(i)
       \/ BodyArrives(i)
  \/ \E i \in Handlers, response \in Responses : FetchResponds(i, response)
  \/ WriteSkipped
  \/ WriteBegins
  \/ WriteSucceeds
  \/ WriteFails
  \/ Restart

Spec == Init /\ [][Next]_vars

SpecAnyEnv == InitAnyEnv /\ [][Next]_vars

SpecLoad == InitLoad /\ [][Next]_vars

SpecSwitches == InitSwitches /\ [][Next]_vars

(***************************************************************************)
(* Vocabulary of the properties.                                           *)
(***************************************************************************)
\* handler i has been invoked in the running process
Arrived(i) == handlers[i].pc \notin {"idle", "gone"}

\* handler i looked its key up in the store
Looked(i) == handlers[i].via \in {"hit", "join", "fetch"}

\* handler i called route.fetch()
Fetched(i) == handlers[i].via = "fetch"

\* handler i is suspended on an upstream fetch, its own or another's
InFlight(i) == handlers[i].pc \in {"fetching", "body", "waiting"}

LookedUp == { i \in Handlers : Looked(i) }

KeysLookedUp == { handlers[i].req.url : i \in LookedUp }

FetchesOf(key) == { i \in Handlers : Fetched(i) /\ handlers[i].req.url = key }

C2_HitServesStoredResponse ==
  [][ \A i \in Handlers :
        ( /\ handlers[i].pc = "idle"
          /\ handlers'[i].pc # "idle"
          /\ handlers'[i].req.method = "GET"
          /\ handlers'[i].req.resourceType \notin BLOCKED_RESOURCE_TYPES
          /\ handlers'[i].req.url \in DOMAIN origin )
        => /\ handlers'[i].pc = "fulfilled"
           /\ handlers'[i].via = "hit"
           /\ handlers'[i].delivered = origin[handlers'[i].req.url]
           /\ origin[handlers'[i].req.url].status >= 200
           /\ origin[handlers'[i].req.url].status < 400
           /\ pendingRequests' = pendingRequests ]_vars

\* a request was served from the entry an earlier request fetched, with a body
\* whose base64 text is padded
C2_Witness ==
  \E i, j \in Handlers :
    /\ handlers[j].via = "fetch" /\ handlers[j].pc = "fulfilled"
    /\ handlers[i].via = "hit" /\ handlers[i].pc = "fulfilled"
    /\ handlers[i].req.url = handlers[j].req.url
    /\ handlers[i].delivered = handlers[j].response
    /\ handlers[i].delivered.body = <<255>>

(***************************************************************************)
(* C3: once the owner's upstream fetch has failed (route.fetch() yielded   *)
(* nothing or threw, or response.body() threw), the registry no longer     *)
(* holds the owner's promise under its key.                                *)
(***************************************************************************)
FetchFailed(i) == Fetched(i) /\ handlers[i].pc \in {"error", "continued"}

C3_FailedFetchFreesSlot ==
  \A i \in Handlers :
    FetchFailed(i) => \A key \in DOMAIN pendingRequests : pendingRequests[key] # i

(***************************************************************************)
(* C4: a request whose URL matches an authentication or a volatility       *)
(* pattern never looks the store up, is never fulfilled from it and starts *)
(* no fetch that would insert it.  As claimed: it is always forwarded      *)
(* (route.continue).  As amended: it is forwarded unless a block step      *)
(* aborts it first.                                                        *)
(***************************************************************************)
AuthOrVolatile(req) == RequestTests[req].isAuthLike \/ RequestTests[req].isDynamic

BlockedRequest(req) ==
  \/ RequestTests[req].isBlockedType
  \/ DOMAIN_BLOCKING_ENABLED /\ RequestTests[req].isBlockedDomain

C4_AlwaysForwarded ==
  \A i \in Handlers :
    (Arrived(i) /\ AuthOrVolatile(handlers[i].req))
    => ~Looked(i) /\ handlers[i].pc = "continued"

C4_NeverCachedForwardedUnlessBlocked ==
  \A i \in Handlers :
    (Arrived(i) /\ AuthOrVolatile(handlers[i].req))
    => /\ ~Looked(i)
       /\ handlers[i].delivered = None
       /\ handlers[i].req.url \notin DOMAIN origin
       /\ handlers[i].pc =
            IF BlockedRequest(handlers[i].req) THEN "aborted" ELSE "continued"

\* a volatile URL was forwarded while the store held an entry under it
C4_Witness ==
  \E i \in Handlers :
    /\ handlers[i].pc = "continued"
    /\ AuthOrVolatile(handlers[i].req)
    /\ Has(httpCache, handlers[i].req.url)

(***************************************************************************)
(* C5: the store never holds more than MAX_CACHE_ENTRIES entries and more  *)
(* than the size ceiling in bytes at the same time; in particular not      *)
(* right after a put.                                                      *)
(***************************************************************************)
C5_NeverOverBothCeilings ==
  ~( /\ Len(httpCache) > MAX_CACHE_ENTRIES
     /\ CacheSizeBytes(httpCache) > MAX_CACHE_SIZE_BYTES )

\* right after puts the store is over its size ceiling, and full
C5_Witness ==
  /\ \E i \in Handlers :
       /\ Fetched(i) /\ handlers[i].pc = "fulfilled"
       /\ Has(httpCache, handlers[i].req.url)
  /\ cacheDirty
  /\ CacheSizeBytes(httpCache) > MAX_CACHE_SIZE_BYTES
  /\ Len(httpCache) = MAX_CACHE_ENTRIES

(***************************************************************************)
(* C6: the entries the last evictLRU() removed are the oldest: none of     *)
(* them has a lastAccess above that of an entry it kept.                   *)
(***************************************************************************)
EvictedBy(call) ==
  { i \in 1..Len(call.before) : call.before[i].key \notin Keys(call.after) }

C6_EvictsOldest ==
  \A i \in EvictedBy(evictCall), j \in 1..Len(evictCall.after) :
    evictCall.before[i].lastAccess <= evictCall.after[j].lastAccess

\* an eviction removed an entry inserted after the one it kept
C6_Witness ==
  \E i \in EvictedBy(evictCall), j \in 1..Len(evictCall.after) :
    /\ evictCall.before[i].lastAccess < evictCall.after[j].lastAccess
    /\ IndexOf(evictCall.before, evictCall.after[j].key) < i

(***************************************************************************)
(* C7: a request of a blocked resource type, or to a blocked domain with   *)
(* domain blocking on, is aborted in its first stretch: no fetch, nothing  *)
(* delivered, and the store, its counters, the dirty flag, the registry    *)
(* and the other handlers are as they were.                                *)
(***************************************************************************)
C7_BlockedAbortsUntouched ==
  [][ \A i \in Handlers :
        ( /\ handlers[i].pc = "idle"
          /\ handlers'[i].pc # "idle"
          /\ BlockedRequest(handlers'[i].req) )
        => /\ handlers'[i].pc = "aborted"
           /\ ~Looked(i)'
           /\ handlers'[i].delivered = None
           /\ UNCHANGED << httpCache, cacheStats, cacheDirty, pendingRequests,
                           dedupStats, cacheFile >>
           /\ \A j \in Handlers \ {i} : handlers'[j] = handlers[j] ]_vars

\* a GET for a URL in the store was aborted
C7_Witness ==
  \E i \in Handlers :
    /\ handlers[i].pc = "aborted"
    /\ handlers[i].req.method = "GET"
    /\ Has(httpCache, handlers[i].req.url)

(***************************************************************************)
(* C8: as claimed, blocked counts every request the block steps aborted.   *)
(* As amended, blocked counts the requests aborted for their domain; those *)
(* aborted for their resource type are not counted.                        *)
(***************************************************************************)
Aborted == { i \in Handlers : handlers[i].pc = "aborted" }

AbortedForDomain ==
  { i \in Aborted : handlers[i].req.resourceType \notin BLOCKED_RESOURCE_TYPES }

C8_BlockedCountsAllAborts == domainBlockStats.blocked = Cardinality(Aborted)

C8_BlockedCountsDomainAborts == domainBlockStats.blocked = Cardinality(AbortedForDomain)

\* one request aborted for its domain and one for its type: blocked is 1
C8_Witness ==
  /\ Cardinality(AbortedForDomain) = 1
  /\ Cardinality(Aborted) = 2
  /\ domainBlockStats.blocked = 1

(***************************************************************************)
(* C9: a store of at most MAX_CACHE_ENTRIES entries that has just been     *)
(* flushed (clear-on-start off) is found again by the next process: the    *)
(* same keys with the same status, headers and body.                       *)
(***************************************************************************)
Contents(cache) ==
  { [key |-> cache[i].key, status |-> cache[i].status,
     headers |-> cache[i].headers, body |-> cache[i].body] : i \in 1..Len(cache) }

C9_SnapshotRoundTrip ==
  [][ ( /\ run' = run + 1
        /\ CACHE_ENABLED /\ ~CACHE_CLEAR
        /\ runPc = "ended" /\ ~cacheDirty
        /\ cacheFile = Stringify(httpCache)
        /\ Len(httpCache) <= MAX_CACHE_ENTRIES )
      => Contents(httpCache') = Contents(httpCache) ]_vars

(***************************************************************************)
(* C10: a request that joined a pending fetch whose owner's fetch failed   *)
(* ends by forwarding its request (route.continue), not with an error.     *)
(***************************************************************************)
C10_WaiterFallsBack ==
  \A j \in Handlers :
    ( /\ handlers[j].via = "join"
      /\ handlers[j].pc # "waiting"
      /\ FetchFailed(handlers[j].awaits) )
    => handlers[j].pc = "continued"

(***************************************************************************)
(* C11: an owner whose upstream fetch failed (route.fetch() yielded        *)
(* nothing or threw) ends by forwarding its request (route.continue).      *)
(***************************************************************************)
\* the owner's route.fetch() itself failed: no response ever reached it
RouteFetchFailed(i) == FetchFailed(i) /\ handlers[i].response = None

C11_OwnerFallsBack ==
  \A i \in Handlers : RouteFetchFailed(i) => handlers[i].pc = "continued"

(***************************************************************************)
(* C12: no route handler ends by raising an error: every handler that has  *)
(* ended did so with route.abort, route.fulfill or route.continue.         *)
(***************************************************************************)
C12_NoHandlerRaises ==
  \A i \in Handlers : handlers[i].pc # "error"

(***************************************************************************)
(* C13: with deduplication on, no key has two upstream fetches in flight   *)
(* at once, whatever the order of the handlers' steps and of the end of    *)
(* the test body (writeCacheToDisk, pendingRequests.clear).                *)
(***************************************************************************)
\* the upstream fetches of key that have not settled
FetchesInFlight(key) ==
  { i \in FetchesOf(key) : handlers[i].pc \in {"fetching", "body"} }

C13_OneFetchInFlightPerKey ==
  DEDUP_ENABLED =>
    \A i \in Handlers :
      Fetched(i) => Cardinality(FetchesInFlight(handlers[i].req.url)) <= 1

(***************************************************************************)
(* C14: when a waiter is fulfilled, the registry no longer holds the fetch *)
(* it waited on, and for a status in [200,400) the store already holds the *)
(* fetched response under the key: the owner's removal and insertion come  *)
(* before every waiter's fulfilment.                                       *)
(***************************************************************************)
\* the registry holds the promise of owner under key
Registered(pending, key, owner) ==
  IF key \in DOMAIN pending THEN pending[key] = owner ELSE FALSE

C14_ResolveBeforeWaiters ==
  [][ \A j \in Handlers :
        (handlers[j].pc = "waiting" /\ handlers'[j].pc = "fulfilled")
        => /\ ~Registered(pendingRequests', handlers[j].req.url, handlers[j].awaits)
           /\ handlers'[j].delivered.status \in 200..399
              => /\ Has(httpCache', handlers[j].req.url)
                 /\ FromCache(Get(httpCache', handlers[j].req.url))
                      = handlers'[j].delivered ]_vars

\* a waiter was fulfilled with a response that is in the store, its key out
\* of the registry
C14_Witness ==
  \E j \in Handlers :
    /\ handlers[j].via = "join"
    /\ handlers[j].pc = "fulfilled"
    /\ handlers[j].delivered.status = 399
    /\ Has(httpCache, handlers[j].req.url)
    /\ handlers[j].req.url \notin DOMAIN pendingRequests

(***************************************************************************)
(* C15: writeCacheToDisk() called while dirty is false returns at once and *)
(* leaves the file, the dirty flag and the writes counter as they were.    *)
(* Called while dirty is true it serializes the whole store, every entry   *)
(* as it is in memory at the call, and when the write succeeds the file    *)
(* holds that text, dirty is false and writes has grown by exactly 1.      *)
(***************************************************************************)
WriteCallReturnsAtOnce == runPc = "test" /\ runPc' = "ended"

WriteCallSuspends == runPc = "test" /\ runPc' = "writing"

WriteCallResumes == runPc = "writing" /\ runPc' = "ended"

C16_FailedWriteKeepsDirty ==
  [][ (WriteCallResumes /\ writeOutcome' = "failed")
      => /\ runPc' = "ended"
         /\ pendingRequests' = << >>
         /\ UNCHANGED << httpCache, cacheStats >>
         /\ cacheDirty /\ cacheDirty' ]_vars

\* a write failed and left a cut-short file; the store still has its entries
C16_Witness ==
  /\ writeOutcome = "failed"
  /\ runPc = "ended"
  /\ cacheFile = FileCorrupt
  /\ Len(httpCache) > 0
  /\ cacheDirty
  /\ cacheStats.writes = 0

(***************************************************************************)
(* C17: a process that starts with the cache off, with clear-on-start set, *)
(* or on a file that is absent, unreadable, not JSON or fails part-way     *)
(* through the load starts its test with an empty store: no entry of a     *)
(* partly loaded file is kept, and the test body runs.                     *)
(***************************************************************************)
\* the module-level load finds nothing it can load whole
NothingToLoad ==
  ~CACHE_ENABLED \/ CACHE_CLEAR \/ cacheFile.state # "json"

C18_UncacheableStatusNotStored ==
  [][ \A i \in Handlers :
        ( /\ handlers[i].pc = "body"
          /\ handlers'[i].pc \notin {"body", "gone", "error"}
          /\ handlers[i].response.status \notin 200..399 )
        => /\ UNCHANGED << httpCache, cacheStats, cacheDirty, evictCall >>
           /\ handlers'[i].pc = "fulfilled"
           /\ handlers'[i].delivered = handlers[i].response
           /\ \A j \in Handlers :
                (handlers[j].pc = "waiting" /\ handlers[j].awaits = i)
                => /\ handlers'[j].pc = "fulfilled"
                   /\ handlers'[j].delivered = handlers[i].response
           /\ handlers[i].req.url \notin DOMAIN pendingRequests' ]_vars

\* an owner and its waiter were fulfilled with a 400 that is not in the store
C18_Witness ==
  \E i, j \in Handlers :
    /\ Fetched(i) /\ handlers[i].pc = "fulfilled"
    /\ handlers[i].delivered.status = 400
    /\ handlers[j].via = "join" /\ handlers[j].awaits = i
    /\ handlers[j].pc = "fulfilled"
    /\ handlers[j].delivered = handlers[i].response
    /\ ~Has(httpCache, handlers[i].req.url)
    /\ handlers[i].req.url \notin DOMAIN pendingRequests

(***************************************************************************)
(* C19: a request that is not blocked and not cacheable (not a GET, a      *)
(* data: URL, an authentication-like or a volatile URL) is forwarded with  *)
(* route.continue in its first stretch and changes nothing: the store,     *)
(* the dirty flag, the registry, every counter and the other handlers are  *)
(* as before.                                                              *)
(***************************************************************************)
\* the requests of the model that pass the block steps and fail line 155
PassThroughRequests ==
  { Request("POST", "xhr", UrlP),
    Request("GET", "document", UrlData),
    Request("GET", "document", UrlLogin),
    Request("GET", "xhr", UrlSearch) }

C19_PassThroughChangesNothing ==
  [][ \A i \in Handlers :
        ( /\ handlers[i].pc = "idle"
          /\ handlers'[i].pc # "idle"
          /\ handlers'[i].req \in PassThroughRequests )
        => /\ handlers'[i].pc = "continued"
           /\ handlers'[i].delivered = None
           /\ ~Looked(i)'
           /\ UNCHANGED << httpCache, cacheDirty, pendingRequests, cacheStats,
                           dedupStats, domainBlockStats, cacheFile, evictCall >>
           /\ \A j \in Handlers \ {i} : handlers'[j] = handlers[j] ]_vars

\* a POST was forwarded while its URL was in the store
C19_Witness ==
  \E i \in Handlers :
    /\ handlers[i].pc = "continued"
    /\ handlers[i].req.method = "POST"
    /\ Has(httpCache, handlers[i].req.url)

(***************************************************************************)
(* C20: as claimed, hits + misses counts every cacheable request that      *)
(* looked its key up, those that joined a pending fetch included.  As      *)
(* amended, hits counts the requests served from the store, misses those   *)
(* that started an upstream fetch, and a request that joins a pending      *)
(* fetch counts in duplicates only, so hits + misses + duplicates is the   *)
(* number of lookups.                                                      *)
(***************************************************************************)
Via(via) == { i \in Handlers : handlers[i].via = via }

C20_HitsPlusMissesCountLookups ==
  cacheStats.hits + cacheStats.misses = Cardinality(LookedUp)

C20_JoinersCountAsDuplicatesOnly ==
  /\ cacheStats.hits = Cardinality(Via("hit"))
  /\ cacheStats.misses = Cardinality(Via("fetch"))
  /\ dedupStats.duplicates = Cardinality(Via("join"))
  /\ cacheStats.hits + cacheStats.misses + dedupStats.duplicates
       = Cardinality(LookedUp)

\* a request joined a pending fetch: two lookups, one miss, no hit
C20_Witness ==
  /\ Cardinality(Via("join")) = 1
  /\ Cardinality(LookedUp) = 2
  /\ cacheStats.hits = 0
  /\ cacheStats.misses = 1

(***************************************************************************)
(* C21: whenever dirty is false, the file holds exactly the entries of the *)
(* store: the same keys with the same status, headers and body.            *)
(***************************************************************************)
C21_CleanMeansPersisted ==
  (CACHE_ENABLED /\ ~cacheDirty) => Contents(cacheFile.entries) = Contents(httpCache)

(***************************************************************************)
(* C22: with deduplication on, within a process no step changes the        *)
(* status, headers or body of an entry that stays in the store: a put      *)
(* never overwrites an entry that its own eviction left in place.          *)
(***************************************************************************)
\* status, headers and body of the entry under key
ContentOf(cache, key) ==
  [status |-> Get(cache, key).status, headers |-> Get(cache, key).headers,
   body |-> Get(cache, key).body]

C22_NoOverwriteOfLiveEntry ==
  [][ (DEDUP_ENABLED /\ run' = run)
      => \A key \in Keys(Evict(httpCache)) \cap Keys(httpCache') :
           ContentOf(httpCache', key) = ContentOf(httpCache, key) ]_vars

(***************************************************************************)
(* C23: a waiter whose owner's fetch succeeded is fulfilled with the       *)
(* status, headers and body the upstream returned to the owner, which are  *)
(* also what the owner is fulfilled with, for any status.                  *)
(***************************************************************************)
C23_WaiterGetsOwnersResponse ==
  \A j \in Handlers :
    (handlers[j].via = "join" /\ handlers[handlers[j].awaits].pc = "fulfilled")
    => /\ handlers[j].pc = "fulfilled"
       /\ handlers[j].delivered = handlers[handlers[j].awaits].response
       /\ handlers[j].delivered = handlers[handlers[j].awaits].delivered

\* a waiter got the one-byte body its owner's fetch returned
C23_Witness ==
  \E j \in Handlers :
    /\ handlers[j].via = "join"
    /\ handlers[j].pc = "fulfilled"
    /\ handlers[j].delivered.body = << 255 >>
    /\ handlers[j].delivered = handlers[handlers[j].awaits].response

(***************************************************************************)
(* C24: the last evictLRU() left the store empty or with both signals      *)
(* clear (count < MAX_CACHE_ENTRIES and size < the size ceiling), and      *)
(* removed no more than needed: sparing any one of the entries it removed  *)
(* would have left a signal raised.                                        *)
(***************************************************************************)
\* a pressure signal is raised on cache
UnderPressure(cache) ==
  Len(cache) >= MAX_CACHE_ENTRIES \/ CacheSizeBytes(cache) >= MAX_CACHE_SIZE_BYTES

\* the entries of cache under the keys given, in their order
Only(cache, keys) ==
  LET kept(e) == e.key \in keys
  IN SelectSeq(cache, kept)

C24_EvictsJustEnough ==
  /\ evictCall.after = << >> \/ ~UnderPressure(evictCall.after)
  /\ \A i \in EvictedBy(evictCall) :
       UnderPressure(Only(evictCall.before,
                          Keys(evictCall.after) \cup {evictCall.before[i].key}))

\* an eviction removed one entry of two and stopped
C24_Witness ==
  /\ Len(evictCall.before) = 2
  /\ Len(evictCall.after) = 1
  /\ ~UnderPressure(evictCall.after)

(***************************************************************************)
(* C25: a cache hit changes the lastAccess of the entry hit and the hits   *)
(* counter, and nothing else: that entry's status, headers and body,       *)
(* every other entry, the order of the entries, the dirty flag, the        *)
(* registry, the file and the other counters are as before.                *)
(***************************************************************************)
C25_HitTouchesOneEntry ==
  [][ \A i \in Handlers :
        (handlers[i].pc = "idle" /\ handlers'[i].via = "hit")
        => /\ Len(httpCache') = Len(httpCache)
           /\ \A j \in 1..Len(httpCache) :
                IF httpCache[j].key = handlers'[i].req.url
                THEN /\ httpCache'[j] = [httpCache[j] EXCEPT !.lastAccess = now']
                     /\ now' >= httpCache[j].lastAccess
                ELSE httpCache'[j] = httpCache[j]
           /\ cacheStats' = [cacheStats EXCEPT !.hits = @ + 1]
           /\ UNCHANGED << cacheDirty, pendingRequests, dedupStats,
                           domainBlockStats, cacheFile, evictCall >> ]_vars

\* a hit on one of two entries: the one hit is now the newer
C25_Witness ==
  \E i \in Handlers :
    /\ handlers[i].via = "hit"
    /\ Has(httpCache, handlers[i].req.url)
    /\ Len(httpCache) = 2
    /\ \E j \in 1..2 :
         /\ httpCache[j].key # handlers[i].req.url
         /\ httpCache[j].lastAccess < Get(httpCache, handlers[i].req.url).lastAccess

PutBy(i) ==
  /\ handlers[i].pc = "body"
  /\ handlers'[i].pc = "fulfilled"
  /\ handlers[i].response.status \in 200..399

C27_NoPressureNoEviction ==
  /\ ~UnderPressure(evictCall.before)
     => /\ httpCache = evictCall.before
        /\ cacheStats.evictions = 0
        /\ ~cacheDirty
  /\ [][ /\ \A i \in Handlers :
              (PutBy(i) /\ ~UnderPressure(httpCache))
              => /\ Only(httpCache', Keys(httpCache) \ {handlers[i].req.url})
                      = Only(httpCache, Keys(httpCache) \ {handlers[i].req.url})
                 /\ cacheStats'.evictions = cacheStats.evictions
                 /\ evictCall'.after = httpCache
         /\ (run' = run + 1 /\ ~UnderPressure(evictCall'.before))
            => /\ httpCache' = evictCall'.before
               /\ cacheStats'.evictions = 0
               /\ ~cacheDirty' ]_vars

\* a put on a store of one entry under the ceilings evicted nothing
C27_Witness ==
  /\ Len(evictCall.before) = 1
  /\ evictCall.after = evictCall.before
  /\ Len(httpCache) = 2
  /\ cacheStats.evictions = 0
  /\ \E i \in Handlers : Fetched(i) /\ handlers[i].pc = "fulfilled"

(***************************************************************************)
(* C28: evictions counts the entries evictLRU() has removed in the         *)
(* process: it starts at the number the load's call removed, grows at each *)
(* put by the number that put's call removed, and changes at no other      *)
(* step, as the store loses entries at no other step; a call that removed  *)
(* an entry leaves dirty true.                                             *)
(***************************************************************************)
Removed(call) == Cardinality(EvictedBy(call))

C28_EvictionsCountRemovals ==
  /\ cacheStats.evictions = Removed(evictCall)
  /\ Removed(evictCall) > 0 => cacheDirty
  /\ [][ IF run' = run + 1
         THEN /\ cacheStats'.evictions = Removed(evictCall')
              /\ Keys(httpCache') = Keys(evictCall'.after)
              /\ cacheDirty' = (Removed(evictCall') > 0)
         ELSE IF \E i \in Handlers : PutBy(i)
         THEN /\ evictCall'.before = httpCache
              /\ cacheStats'.evictions = cacheStats.evictions + Removed(evictCall')
              /\ Keys(httpCache') \ Keys(evictCall'.after)
                   \subseteq { handlers[i].req.url : i \in { j \in Handlers : PutBy(j) } }
              /\ Keys(evictCall'.after) \subseteq Keys(httpCache')
              /\ Removed(evictCall') > 0 => cacheDirty'
         ELSE /\ cacheStats'.evictions = cacheStats.evictions
              /\ Keys(httpCache') = Keys(httpCache) ]_vars

\* the load removed one entry and a put another: evictions is 2
C28_Witness ==
  /\ cacheStats.evictions = 2
  /\ Removed(evictCall) = 1
  /\ cacheDirty
  /\ \E i \in Handlers : Fetched(i) /\ handlers[i].pc = "fulfilled"

(***************************************************************************)
(* C29: a put is one step.  The step in which a fetched response with a    *)
(* status in [200,400) reaches its owner evicts from the store as it is at *)
(* the start of the step, inserts the entry and removes the key from the   *)
(* registry; and within a process no other step removes or inserts an      *)
(* entry or changes the evictions counter, so no handler sees the store    *)
(* between the eviction check and the removal from the registry.           *)
(***************************************************************************)
C29_PutIsOneStep ==
  [][ run' = run
      => /\ \A i \in Handlers :
              PutBy(i)
              => /\ evictCall'.before = httpCache
                 /\ Only(httpCache', Keys(httpCache') \ {handlers[i].req.url})
                      = Only(evictCall'.after, Keys(evictCall'.after) \ {handlers[i].req.url})
                 /\ Has(httpCache', handlers[i].req.url)
                 /\ FromCache(Get(httpCache', handlers[i].req.url)) = handlers[i].response
                 /\ Get(httpCache', handlers[i].req.url).lastAccess = now'
                 /\ handlers[i].req.url \notin DOMAIN pendingRequests'
                 /\ \A j \in Handlers :
                      (handlers'[j] # handlers[j]) => (j = i \/ handlers[j].awaits = i)
         /\ ( \/ Keys(httpCache') # Keys(httpCache)
              \/ cacheStats'.evictions # cacheStats.evictions
              \/ evictCall' # evictCall )
            => \E i \in Handlers : PutBy(i) ]_vars

\* a put added its entry to the one in the store and left the registry
\* holding only the fetch of the other handler, still in flight
C29_Witness ==
  \E i, j \in Handlers :
    /\ Fetched(i) /\ handlers[i].pc = "fulfilled"
    /\ Has(httpCache, handlers[i].req.url)
    /\ Len(evictCall.before) = 1
    /\ Keys(httpCache) = Keys(evictCall.after) \cup {handlers[i].req.url}
    /\ handlers[j].pc \in {"fetching", "body"}
    /\ DOMAIN pendingRequests = {handlers[j].req.url}

(***************************************************************************)
(* C30: a request that is not a GET never looks the store up, is never     *)
(* fulfilled from it and starts no fetch that would insert into it, also   *)
(* when the store holds an entry under its URL.  As claimed: it is always  *)
(* forwarded (route.continue).  As amended: it is forwarded unless a block *)
(* step aborts it first.                                                   *)
(***************************************************************************)
NotAGet(i) == Arrived(i) /\ handlers[i].req.method # "GET"

C30_NonGetAlwaysForwarded ==
  \A i \in Handlers :
    NotAGet(i) => (~Looked(i) /\ handlers[i].pc = "continued")

C30_NonGetNeverCached ==
  \A i \in Handlers :
    NotAGet(i)
    => /\ ~Looked(i)
       /\ handlers[i].delivered = None
       /\ handlers[i].pc =
            IF BlockedRequest(handlers[i].req) THEN "aborted" ELSE "continued"

\* a POST was forwarded while the store held the response another handler
\* fetched with a GET of the same URL
C30_Witness ==
  \E i, j \in Handlers :
    /\ NotAGet(i)
    /\ handlers[i].pc = "continued"
    /\ Fetched(j)
    /\ handlers[j].req.url = handlers[i].req.url
    /\ Has(httpCache, handlers[i].req.url)
    /\ FromCache(Get(httpCache, handlers[i].req.url)) = handlers[j].response

(***************************************************************************)
(* C31: in every reachable state the store holds at most MAX_CACHE_ENTRIES *)
(* entries (MAX_CACHE_ENTRIES >= 1): after the load of the snapshot, which *)
(* ends with evictLRU(), and after every put, which begins with it.        *)
(***************************************************************************)
C31_AtMostMaxEntries ==
  MAX_CACHE_ENTRIES >= 1 => Len(httpCache) <= MAX_CACHE_ENTRIES

\* a put into a full store: its evictLRU() made room for one entry and the
\* store is full again
C31_Witness ==
  /\ Len(evictCall.before) = MAX_CACHE_ENTRIES
  /\ Len(evictCall.after) = MAX_CACHE_ENTRIES - 1
  /\ Len(httpCache) = MAX_CACHE_ENTRIES
  /\ MAX_CACHE_ENTRIES = MaxEntriesCeiling
  /\ \E i \in Handlers :
       /\ Fetched(i) /\ handlers[i].pc = "fulfilled"
       /\ Has(httpCache, handlers[i].req.url)
       /\ ~Has(evictCall.before, handlers[i].req.url)

(***************************************************************************)
(* C32: with deduplication on, within one process: the step in which an    *)
(* owner's fetch settles with a status in [200,400) leaves the key in the  *)
(* store as it takes it out of the registry and delivers the result; a key *)
(* leaves the store only through the evictLRU() of a put; and a request    *)
(* starts an upstream fetch only for a key that is in neither the store    *)
(* nor the registry.  So from the settling on, no fetch for the key starts *)
(* until its entry is evicted.                                             *)
(***************************************************************************)
StartsFetch(i) == handlers[i].pc = "idle" /\ handlers'[i].via = "fetch"

C32_NoGapAfterSettle ==
  [][ (run' = run /\ DEDUP_ENABLED)
      => /\ \A i \in Handlers :
              PutBy(i)
              => /\ Has(httpCache', handlers[i].req.url)
                 /\ handlers'[i].delivered = handlers[i].response
         /\ \A key \in Keys(httpCache) \ Keys(httpCache') :
              /\ \E i \in Handlers : PutBy(i)
              /\ evictCall'.before = httpCache
              /\ key \notin Keys(evictCall'.after)
         /\ \A i \in Handlers :
              StartsFetch(i)
              => /\ ~Has(httpCache, handlers'[i].req.url)
                 /\ handlers'[i].req.url \notin DOMAIN pendingRequests ]_vars

\* after an owner's fetch settled, a request that arrived later for its key
\* found the key in the store, not in the registry, before the test body ended
C32_Witness ==
  \E i, j \in Handlers :
    /\ i < j
    /\ Fetched(i) /\ handlers[i].pc = "fulfilled"
    /\ handlers[j].req.url = handlers[i].req.url
    /\ handlers[j].via = "hit"
    /\ handlers[j].delivered = handlers[i].response
    /\ Has(httpCache, handlers[i].req.url)
    /\ handlers[i].req.url \notin DOMAIN pendingRequests
    /\ runPc = "test"

(***************************************************************************)
(* C33: in every reachable state, with deduplication on or off, the unique *)
(* counter equals the misses counter and both equal the number of          *)
(* route.fetch() calls the handlers of the running process have made.      *)
(***************************************************************************)
FetchesStarted == { i \in Handlers : Fetched(i) }

C33_UniqueIsMissesIsFetches ==
  /\ dedupStats.unique = cacheStats.misses
  /\ cacheStats.misses = Cardinality(FetchesStarted)

\* with deduplication off, two requests to one key each called route.fetch()
C33_Witness ==
  /\ ~DEDUP_ENABLED
  /\ \E i, j \in FetchesStarted :
       i # j /\ handlers[i].req.url = handlers[j].req.url
  /\ dedupStats.unique = 2

(***************************************************************************)
(* C34: with the cache off, every request the block steps let through is   *)
(* forwarded with route.continue() in its first stretch (and a blocked one *)
(* aborted): no handler looks the store up, joins a fetch or starts one,   *)
(* with deduplication on or off; the store and the registry stay empty;    *)
(* hits, misses, unique and duplicates stay 0; and writeCacheToDisk()      *)
(* returns at once, so writes stays 0 and the snapshot file is as the      *)
(* first process found it.                                                 *)
(***************************************************************************)
C34_CacheOffForwardsAll ==
  ~CACHE_ENABLED
  => /\ \A i \in Handlers :
          Arrived(i)
          => /\ ~Looked(i)
             /\ handlers[i].delivered = None
             /\ handlers[i].pc =
                  IF BlockedRequest(handlers[i].req) THEN "aborted" ELSE "continued"
     /\ httpCache = << >>
     /\ pendingRequests = << >>
     /\ origin = << >>
     /\ evictCall = NoEvictCall
     /\ ~cacheDirty
     /\ cacheStats = ZeroCacheStats
     /\ dedupStats = ZeroDedupStats
     /\ runPc # "writing"
     /\ writeOutcome \in {"none", "skipped"}
     /\ writeText = FileAbsent
     /\ cacheFile \in InitialFiles

\* with the cache off and deduplication on, two requests to one URL that a
\* snapshot on disk holds were both forwarded, and the test body has ended
C34_Witness ==
  /\ ~CACHE_ENABLED /\ DEDUP_ENABLED
  /\ cacheFile.state = "json"
  /\ runPc = "ended"
  /\ writeOutcome = "skipped"
  /\ \E i, j \in Handlers :
       /\ i # j
       /\ handlers[i].req = Request("GET", "document", UrlP)
       /\ handlers[j].req = handlers[i].req
       /\ handlers[i].pc = "continued" /\ handlers[j].pc = "continued"

(***************************************************************************)
(* C35: with deduplication off and the cache on, every request that looked *)
(* a key up and did not find it in the store called route.fetch() itself,  *)
(* no handler waits on the fetch of another, duplicates stays 0, and once  *)
(* no fetch for a key is in flight any more the registry holds no entry    *)
(* for it.                                                                 *)
(***************************************************************************)
FetchInFlight(i) == Fetched(i) /\ handlers[i].pc \in {"fetching", "body"}

AllFetchesSettled(key) ==
  /\ FetchesOf(key) # {}
  /\ \A i \in FetchesOf(key) : ~FetchInFlight(i)

C35_EachFetchesAlone ==
  (~DEDUP_ENABLED /\ CACHE_ENABLED)
  => /\ \A i \in LookedUp :
          /\ handlers[i].via \in {"hit", "fetch"}
          /\ handlers[i].pc # "waiting"
          /\ Fetched(i) => handlers[i].awaits = i
     /\ dedupStats.duplicates = 0
     /\ \A key \in KeysLookedUp :
          AllFetchesSettled(key) => key \notin DOMAIN pendingRequests

====
